---- MODULE Spec2Model ----
(***************************************************************************)
(* Model of src-tauri/src/main.rs: the sidecar supervisor                  *)
(* (start_local_api / stop_local_api over LocalApiState.child, a           *)
(* Mutex<Option<Child>>), the host's main() flow, and the secret-store     *)
(* commands over the platform keyring.                                     *)
(*                                                                         *)
(* Three specifications share the variables:                               *)
(*   Spec      - start_local_api and stop_local_api called by NumThreads   *)
(*               execution contexts in any interleaving;                   *)
(*   HostSpec  - main(): setup, run loop, ExitRequested / Exit;            *)
(*   StoreSpec - the four secret commands against the keyring.             *)
(*                                                                         *)
(* std::sync::Mutex poisoning (the Err branch of lock(), lines 102 and     *)
(* 132) needs a panic while the guard is held; no statement inside either  *)
(* critical section panics, so lock() is modelled as always succeeding.    *)
(***************************************************************************)
EXTENDS Integers, Sequences, FiniteSets, TLC

\* ------------------------------------------------------------------ bounds
NumThreads == 2
MaxCalls == 4
MaxValues == 2

Threads == 1..NumThreads
Pids == 1..MaxCalls
NoChild == 0
NoThread == 0

VARIABLES
    child,        \* LocalApiState.child: NoChild (None) or the pid of Some(child)
    lock,         \* holder of the Mutex guard, NoThread when free
    pc,           \* per context: position inside start_local_api / stop_local_api
    slotLocal,    \* per context: the `child` local (spawned or taken handle)
    ret,          \* per context: result of its last returned call
    scriptExists, \* file system: script.exists()
    spawned,      \* OS: number of processes ever spawned (pids 1..spawned)
    kills,        \* OS: per pid, number of kill() requests it was sent
    exited,       \* OS: pids that exited on their own
    lastKill,     \* result of the last child.kill(), which the code discards
    calls,        \* history: number of calls invoked so far
    nStop,        \* history: number of stop_local_api calls invoked so far
    envFail,      \* history: exists() answered false or spawn() failed at least once
    overlap,      \* history: two start_local_api calls were in progress at once
    host,         \* main(): phase of the host application
    vault,        \* keyring: per key, the stored password or NoEntry
    last,         \* the last secret command: op, key, result, vault accesses
    expect,       \* history: per key, the value of the last set call, Deleted after a
                  \* later delete call, else what the keyring held at start
    dirty         \* history: per key, the last set/delete call on it failed in the vault

supVars == <<child, lock, pc, slotLocal, ret, scriptExists, spawned, kills,
             exited, lastKill, calls, nStop, envFail, overlap>>
storeVars == <<vault, last, expect, dirty>>
vars == <<supVars, host, storeVars>>

\* ------------------------------------------------------- program constants
SUPPORTED_SECRET_KEYS ==
    << "GROQ_API_KEY", "OPENROUTER_API_KEY", "FRED_API_KEY", "EIA_API_KEY",
       "CLOUDFLARE_API_TOKEN", "ACLED_ACCESS_TOKEN", "WINGBITS_API_KEY",
       "WS_RELAY_URL", "VITE_OPENSKY_RELAY_URL", "OPENSKY_CLIENT_ID",
       "OPENSKY_CLIENT_SECRET", "AISSTREAM_API_KEY", "VITE_WS_RELAY_URL" >>

\* ------------------------------------------------------------- supervisor
InStart(t) == pc[t] \in {"start_lock", "start_check", "start_exists", "start_spawn", "start_store"}
InStop(t) == pc[t] \in {"stop_lock", "stop_take", "stop_kill"}

\* LocalApiState::default(): child = Mutex::new(None)
LocalApiStateDefault ==
    /\ child = NoChild
    /\ lock = NoThread
    /\ pc = [t \in Threads |-> "idle"]
    /\ slotLocal = [t \in Threads |-> NoChild]
    /\ ret = [t \in Threads |-> "none"]

\* a context enters start_local_api
InvokeStart(t) ==
    /\ pc[t] = "idle"
    /\ pc' = [pc EXCEPT ![t] = "start_lock"]
    /\ ret' = [ret EXCEPT ![t] = "none"]
    /\ calls' = calls + 1
    /\ overlap' = (overlap \/ \E u \in Threads \ {t} : InStart(u))
    /\ UNCHANGED <<child, lock, slotLocal, scriptExists, spawned, kills, exited,
                   lastKill, nStop, envFail>>

\* a context enters stop_local_api; try_state() is Some: main() manages the state
InvokeStop(t) ==
    /\ pc[t] = "idle"
    /\ pc' = [pc EXCEPT ![t] = "stop_lock"]
    /\ ret' = [ret EXCEPT ![t] = "none"]
    /\ calls' = calls + 1
    /\ nStop' = nStop + 1
    /\ UNCHANGED <<child, lock, slotLocal, scriptExists, spawned, kills, exited,
                   lastKill, envFail, overlap>>

\* return from either function: the guard `slot` is dropped
Return(t, r) ==
    /\ pc' = [pc EXCEPT ![t] = "idle"]
    /\ ret' = [ret EXCEPT ![t] = r]
    /\ lock' = NoThread

\* mutation of StartLock: the slot is examined without waiting for the guard
StartLock_NoMutex(t) ==
    /\ pc[t] = "start_lock"
    /\ lock' = t
    /\ pc' = [pc EXCEPT ![t] = "start_check"]
    /\ UNCHANGED <<child, slotLocal, ret, scriptExists, spawned, kills, exited,
                   lastKill, calls, nStop, envFail, overlap>>
    /\ UNCHANGED <<host, storeVars>>

\* state.child.lock()
StartLock(t) ==
    /\ pc[t] = "start_lock"
    /\ lock = NoThread
    /\ lock' = t
    /\ pc' = [pc EXCEPT ![t] = "start_check"]
    /\ UNCHANGED <<child, slotLocal, ret, scriptExists, spawned, kills, exited,
                   lastKill, calls, nStop, envFail, overlap>>
    /\ UNCHANGED <<host, storeVars>>

\* mutation of StartCheck: a supervisor that has spawned once never spawns again
StartCheck_OnceOnly(t) ==
    /\ pc[t] = "start_check"
    /\ IF child # NoChild \/ spawned > 0
         THEN Return(t, "Ok")
         ELSE /\ pc' = [pc EXCEPT ![t] = "start_exists"]
              /\ UNCHANGED <<ret, lock>>
    /\ UNCHANGED <<child, slotLocal, scriptExists, spawned, kills, exited,
                   lastKill, calls, nStop, envFail, overlap>>
    /\ UNCHANGED <<host, storeVars>>

\* mutation of StartCheck: a tracked process that has exited counts as not running
StartCheck_Liveness(t) ==
    /\ pc[t] = "start_check"
    /\ IF child # NoChild /\ child \notin exited
         THEN Return(t, "Ok")
         ELSE /\ pc' = [pc EXCEPT ![t] = "start_exists"]
              /\ UNCHANGED <<ret, lock>>
    /\ UNCHANGED <<child, slotLocal, scriptExists, spawned, kills, exited,
                   lastKill, calls, nStop, envFail, overlap>>
    /\ UNCHANGED <<host, storeVars>>

\* mutation of StartCheck: the guard is dropped once the slot was found empty
StartCheck_Unlock(t) ==
    /\ pc[t] = "start_check"
    /\ IF child # NoChild
         THEN Return(t, "Ok")
         ELSE /\ pc' = [pc EXCEPT ![t] = "start_exists"]
              /\ lock' = NoThread
              /\ UNCHANGED ret
    /\ UNCHANGED <<child, slotLocal, scriptExists, spawned, kills, exited,
                   lastKill, calls, nStop, envFail, overlap>>
    /\ UNCHANGED <<host, storeVars>>

\* mutation of StartCheck: the is_some() early return is missing
StartCheck_NoEarlyReturn(t) ==
    /\ pc[t] = "start_check"
    /\ pc' = [pc EXCEPT ![t] = "start_exists"]
    /\ UNCHANGED <<ret, lock>>
    /\ UNCHANGED <<child, slotLocal, scriptExists, spawned, kills, exited,
                   lastKill, calls, nStop, envFail, overlap>>
    /\ UNCHANGED <<host, storeVars>>

\* if slot.is_some() { return Ok(()) }
StartCheck(t) ==
    /\ pc[t] = "start_check"
    /\ IF child # NoChild
         THEN Return(t, "Ok")
         ELSE /\ pc' = [pc EXCEPT ![t] = "start_exists"]
              /\ UNCHANGED <<ret, lock>>
    /\ UNCHANGED <<child, slotLocal, scriptExists, spawned, kills, exited,
                   lastKill, calls, nStop, envFail, overlap>>
    /\ UNCHANGED <<host, storeVars>>

\* mutation of StartExists: the script-missing return leaves the guard locked
StartExists_KeepLock(t) ==
    /\ pc[t] = "start_exists"
    /\ IF ~scriptExists
         THEN /\ pc' = [pc EXCEPT ![t] = "idle"]
              /\ ret' = [ret EXCEPT ![t] = "ScriptMissing"]
              /\ lock' = lock
              /\ envFail' = TRUE
         ELSE /\ pc' = [pc EXCEPT ![t] = "start_spawn"]
              /\ UNCHANGED <<ret, lock, envFail>>
    /\ UNCHANGED <<child, slotLocal, scriptExists, spawned, kills, exited,
                   lastKill, calls, nStop, overlap>>
    /\ UNCHANGED <<host, storeVars>>

\* mutation of StartExists: the script.exists() check is missing
StartExists_NoCheck(t) ==
    /\ pc[t] = "start_exists"
    /\ pc' = [pc EXCEPT ![t] = "start_spawn"]
    /\ UNCHANGED <<ret, lock, envFail>>
    /\ UNCHANGED <<child, slotLocal, scriptExists, spawned, kills, exited,
                   lastKill, calls, nStop, overlap>>
    /\ UNCHANGED <<host, storeVars>>

\* if !script.exists() { return Err("Local API sidecar script missing ...") }
StartExists(t) ==
    /\ pc[t] = "start_exists"
    /\ IF ~scriptExists
         THEN /\ Return(t, "ScriptMissing")
              /\ envFail' = TRUE
         ELSE /\ pc' = [pc EXCEPT ![t] = "start_spawn"]
              /\ UNCHANGED <<ret, lock, envFail>>
    /\ UNCHANGED <<child, slotLocal, scriptExists, spawned, kills, exited,
                   lastKill, calls, nStop, overlap>>
    /\ UNCHANGED <<host, storeVars>>

\* mutation of StartSpawn: a spawn error is swallowed and Ok returned
StartSpawn_SwallowError(t) ==
    /\ pc[t] = "start_spawn"
    /\ \E ok \in BOOLEAN :
         IF ok
           THEN /\ spawned' = spawned + 1
                /\ slotLocal' = [slotLocal EXCEPT ![t] = spawned + 1]
                /\ pc' = [pc EXCEPT ![t] = "start_store"]
                /\ UNCHANGED <<ret, lock, envFail>>
           ELSE /\ Return(t, "Ok")
                /\ envFail' = TRUE
                /\ UNCHANGED <<spawned, slotLocal>>
    /\ UNCHANGED <<child, scriptExists, kills, exited, lastKill, calls, nStop, overlap>>
    /\ UNCHANGED <<host, storeVars>>

\* let child = cmd.spawn().map_err(...)?
StartSpawn(t) ==
    /\ pc[t] = "start_spawn"
    /\ \E ok \in BOOLEAN :
         IF ok
           THEN /\ spawned' = spawned + 1
                /\ slotLocal' = [slotLocal EXCEPT ![t] = spawned + 1]
                /\ pc' = [pc EXCEPT ![t] = "start_store"]
                /\ UNCHANGED <<ret, lock, envFail>>
           ELSE /\ Return(t, "SpawnFailed")
                /\ envFail' = TRUE
                /\ UNCHANGED <<spawned, slotLocal>>
    /\ UNCHANGED <<child, scriptExists, kills, exited, lastKill, calls, nStop, overlap>>
    /\ UNCHANGED <<host, storeVars>>

\* mutation of StartStore: the spawned handle is dropped instead of stored
StartStore_Drop(t) ==
    /\ pc[t] = "start_store"
    /\ child' = child
    /\ slotLocal' = [slotLocal EXCEPT ![t] = NoChild]
    /\ Return(t, "Ok")
    /\ UNCHANGED <<scriptExists, spawned, kills, exited, lastKill, calls, nStop,
                   envFail, overlap>>
    /\ UNCHANGED <<host, storeVars>>

\* *slot = Some(child); Ok(())
StartStore(t) ==
    /\ pc[t] = "start_store"
    /\ child' = slotLocal[t]
    /\ slotLocal' = [slotLocal EXCEPT ![t] = NoChild]
    /\ Return(t, "Ok")
    /\ UNCHANGED <<scriptExists, spawned, kills, exited, lastKill, calls, nStop,
                   envFail, overlap>>
    /\ UNCHANGED <<host, storeVars>>

start_local_api(t) ==
    \/ StartLock(t)
    \/ StartCheck(t)
    \/ StartExists(t)
    \/ StartSpawn(t)
    \/ StartStore(t)

\* if let Ok(mut slot) = state.child.lock()
StopLock(t) ==
    /\ pc[t] = "stop_lock"
    /\ lock = NoThread
    /\ lock' = t
    /\ pc' = [pc EXCEPT ![t] = "stop_take"]
    /\ UNCHANGED <<child, slotLocal, ret, scriptExists, spawned, kills, exited,
                   lastKill, calls, nStop, envFail, overlap>>
    /\ UNCHANGED <<host, storeVars>>

\* mutation of StopTake: the handle is borrowed (as_mut) and the slot not cleared
StopTake_NoClear(t) ==
    /\ pc[t] = "stop_take"
    /\ IF child # NoChild
         THEN /\ slotLocal' = [slotLocal EXCEPT ![t] = child]
              /\ child' = child
              /\ pc' = [pc EXCEPT ![t] = "stop_kill"]
              /\ UNCHANGED <<ret, lock>>
         ELSE /\ Return(t, "Unit")
              /\ UNCHANGED <<child, slotLocal>>
    /\ UNCHANGED <<scriptExists, spawned, kills, exited, lastKill, calls, nStop,
                   envFail, overlap>>
    /\ UNCHANGED <<host, storeVars>>

\* if let Some(mut child) = slot.take()
StopTake(t) ==
    /\ pc[t] = "stop_take"
    /\ IF child # NoChild
         THEN /\ slotLocal' = [slotLocal EXCEPT ![t] = child]
              /\ child' = NoChild
              /\ pc' = [pc EXCEPT ![t] = "stop_kill"]
              /\ UNCHANGED <<ret, lock>>
         ELSE /\ Return(t, "Unit")
              /\ UNCHANGED <<child, slotLocal>>
    /\ UNCHANGED <<scriptExists, spawned, kills, exited, lastKill, calls, nStop,
                   envFail, overlap>>
    /\ UNCHANGED <<host, storeVars>>

\* mutation of StopKill: the taken handle is dropped without kill()
StopKill_NoKill(t) ==
    /\ pc[t] = "stop_kill"
    /\ kills' = kills
    /\ lastKill' = lastKill
    /\ slotLocal' = [slotLocal EXCEPT ![t] = NoChild]
    /\ Return(t, "Unit")
    /\ UNCHANGED <<child, scriptExists, spawned, exited, calls, nStop, envFail, overlap>>
    /\ UNCHANGED <<host, storeVars>>

\* mutation of StopKill: when kill() reports an error the handle is put back
StopKill_RestoreOnError(t) ==
    /\ pc[t] = "stop_kill"
    /\ kills' = [kills EXCEPT ![slotLocal[t]] = @ + 1]
    /\ \E ok \in BOOLEAN :
         /\ lastKill' = IF ok THEN "ok" ELSE "err"
         /\ child' = IF ok THEN child ELSE slotLocal[t]
    /\ slotLocal' = [slotLocal EXCEPT ![t] = NoChild]
    /\ Return(t, "Unit")
    /\ UNCHANGED <<scriptExists, spawned, exited, calls, nStop, envFail, overlap>>
    /\ UNCHANGED <<host, storeVars>>

\* let _ = child.kill();  the result is discarded, the handle and the guard dropped
StopKill(t) ==
    /\ pc[t] = "stop_kill"
    /\ kills' = [kills EXCEPT ![slotLocal[t]] = @ + 1]
    /\ \E ok \in BOOLEAN : lastKill' = IF ok THEN "ok" ELSE "err"
    /\ slotLocal' = [slotLocal EXCEPT ![t] = NoChild]
    /\ Return(t, "Unit")
    /\ UNCHANGED <<child, scriptExists, spawned, exited, calls, nStop, envFail, overlap>>
    /\ UNCHANGED <<host, storeVars>>

stop_local_api(t) ==
    \/ StopLock(t)
    \/ StopTake(t)
    \/ StopKill(t)

\* ------------------------------------------------------------ environment
\* the sidecar script is created or removed on disk
ScriptChange ==
    /\ scriptExists' = ~scriptExists
    /\ UNCHANGED <<child, lock, pc, slotLocal, ret, spawned, kills, exited,
                   lastKill, calls, nStop, envFail, overlap>>
    /\ UNCHANGED <<host, storeVars>>

\* a spawned sidecar process exits on its own
ProcExit(p) ==
    /\ p \in 1..spawned
    /\ p \notin exited
    /\ exited' = exited \cup {p}
    /\ UNCHANGED <<child, lock, pc, slotLocal, ret, scriptExists, spawned, kills,
                   lastKill, calls, nStop, envFail, overlap>>
    /\ UNCHANGED <<host, storeVars>>

Environment ==
    \/ ScriptChange
    \/ \E p \in Pids : ProcExit(p)

\* ------------------------------------------------------------------ store
NoEntry == "NoEntry"
Deleted == "Deleted"
Values == {ToString(i) : i \in 1..MaxValues}
\* keys the commands are called with: the first and the last allow-listed key,
\* and two keys outside the allow-list (one differing only in case)
SampleKeys == {SUPPORTED_SECRET_KEYS[1], SUPPORTED_SECRET_KEYS[Len(SUPPORTED_SECRET_KEYS)]}
UnsupportedKeys == {"groq_api_key", "UNLISTED_KEY"}
KeyInputs == SampleKeys \cup UnsupportedKeys

Ok(tag, v) == [tag |-> tag, val |-> v]
Err(kind) == [tag |-> "Err", val |-> kind]
NoCommand == [op |-> "none", key |-> "", res |-> Ok("none", ""), log |-> <<>>, list |-> <<>>]
Command(op, key, res, log) == [op |-> op, key |-> key, res |-> res, log |-> log, list |-> <<>>]

\* SUPPORTED_SECRET_KEYS.contains(&key)
Contains(seq, key) == \E i \in 1..Len(seq) : seq[i] = key

\* the keyring's answer to Entry::new / get_password / set_password /
\* delete_credential; works: whether the platform store itself works
EntryNew(key, works) == IF works THEN "Ok" ELSE "Failure"
GetPassword(key, works) ==
    IF ~works THEN "Failure" ELSE IF vault[key] = NoEntry THEN "NoEntry" ELSE "Ok"
SetPassword(key, works) == IF works THEN "Ok" ELSE "Failure"
DeleteCredential(key, works) ==
    IF ~works THEN "Failure" ELSE IF vault[key] = NoEntry THEN "NoEntry" ELSE "Ok"

\* mutation of secret_entry: the allow-list check is missing
secret_entry_NoAllowList(key, works) ==
    IF EntryNew(key, works) = "Ok" THEN Ok("Entry", key) ELSE Err("KeyringInit")

\* secret_entry: the allow-list check, then Entry::new(KEYRING_SERVICE, key)
secret_entry(key, works) ==
    IF ~Contains(SUPPORTED_SECRET_KEYS, key)
      THEN Err("UnsupportedKey")
      ELSE IF EntryNew(key, works) = "Ok" THEN Ok("Entry", key) ELSE Err("KeyringInit")

\* what the keyring was asked by secret_entry
EntryLog(key, works) ==
    IF ~Contains(SUPPORTED_SECRET_KEYS, key)
      THEN <<>>
      ELSE << <<"Entry::new", key, EntryNew(key, works)>> >>

\* the commands are served when called directly or by the host's run loop
Serving == host \in {"none", "run"}

\* mutation of list_supported_secret_keys: the keys are collected in reverse order
list_supported_secret_keys_Reversed ==
    /\ Serving
    /\ last' = [op |-> "list", key |-> "", res |-> Ok("OkList", ""), log |-> <<>>,
                list |-> [i \in 1..Len(SUPPORTED_SECRET_KEYS) |->
                            SUPPORTED_SECRET_KEYS[Len(SUPPORTED_SECRET_KEYS) + 1 - i]]]
    /\ UNCHANGED <<vault, expect, dirty, supVars, host>>

\* list_supported_secret_keys
list_supported_secret_keys ==
    /\ Serving
    /\ last' = [op |-> "list", key |-> "", res |-> Ok("OkList", ""), log |-> <<>>,
                list |-> [i \in 1..Len(SUPPORTED_SECRET_KEYS) |-> SUPPORTED_SECRET_KEYS[i]]]
    /\ UNCHANGED <<vault, expect, dirty, supVars, host>>

\* mutation of GetResult: every keyring error is reported as Ok(None)
GetResult_FailureIsNone(key, answer) ==
    IF answer = "Ok" THEN Ok("OkSome", vault[key]) ELSE Ok("OkNone", "")

\* mutation of GetResult: the Err(NoEntry) => Ok(None) arm is missing
GetResult_NoEntryIsError(key, answer) ==
    IF answer = "Ok" THEN Ok("OkSome", vault[key]) ELSE Err("ReadFailed")

\* match entry.get_password() { Ok(value) => Ok(Some(value)),
\*   Err(NoEntry) => Ok(None), Err(err) => Err("Failed to read keyring secret") }
GetResult(key, answer) ==
    IF answer = "Ok" THEN Ok("OkSome", vault[key])
    ELSE IF answer = "NoEntry" THEN Ok("OkNone", "")
    ELSE Err("ReadFailed")

\* entry.set_password(&value).map_err("Failed to write keyring secret")
SetResult(answer) == IF answer = "Ok" THEN Ok("Ok", "") ELSE Err("WriteFailed")

\* mutation of DeleteResult: the Err(NoEntry) => Ok(()) arm is missing
DeleteResult_NoEntryIsError(answer) ==
    IF answer = "Ok" THEN Ok("Ok", "") ELSE Err("DeleteFailed")

\* match entry.delete_credential() { Ok(_) => Ok(()), Err(NoEntry) => Ok(()),
\*   Err(err) => Err("Failed to delete keyring secret") }
DeleteResult(answer) ==
    IF answer \in {"Ok", "NoEntry"} THEN Ok("Ok", "") ELSE Err("DeleteFailed")

\* the keyring after set_password answered; a call it fails on stores nothing
VaultAfterSet(key, value, answer) ==
    IF answer = "Ok" THEN [vault EXCEPT ![key] = value] ELSE vault

\* the keyring after delete_credential answered; a call it fails on removes nothing
VaultAfterDelete(key, answer) ==
    IF answer = "Ok" THEN [vault EXCEPT ![key] = NoEntry] ELSE vault

\* history of a set/delete call that passed the allow-list: the value the key
\* should now hold, and whether the keyring failed on the call
Record(key, value, res) ==
    /\ expect' = [expect EXCEPT ![key] = value]
    /\ dirty' = [dirty EXCEPT ![key] = (res.tag = "Err")]

\* get_secret(key)
get_secret(key) ==
    /\ Serving
    /\ \E initWorks \in BOOLEAN, works \in BOOLEAN :
         LET entry == secret_entry(key, initWorks) IN
         IF entry.tag = "Err"
           THEN last' = Command("get", key, entry, EntryLog(key, initWorks))
           ELSE LET answer == GetPassword(entry.val, works) IN
                last' = Command("get", key, GetResult(entry.val, answer),
                                Append(EntryLog(key, initWorks),
                                       <<"get_password", entry.val, answer>>))
    /\ UNCHANGED <<vault, expect, dirty, supVars, host>>

\* mutation of set_secret: a password already stored is kept (first write wins)
set_secret_KeepExisting(key, value) ==
    /\ Serving
    /\ \E initWorks \in BOOLEAN, works \in BOOLEAN :
         LET entry == secret_entry(key, initWorks) IN
         IF entry.tag = "Err"
           THEN /\ last' = Command("set", key, entry, EntryLog(key, initWorks))
                /\ vault' = vault
                /\ IF entry.val = "UnsupportedKey"
                     THEN UNCHANGED <<expect, dirty>>
                     ELSE Record(key, value, entry)
           ELSE LET answer == SetPassword(entry.val, works) IN
                /\ last' = Command("set", key, SetResult(answer),
                                   Append(EntryLog(key, initWorks),
                                          <<"set_password", entry.val, answer>>))
                /\ vault' = IF vault[entry.val] = NoEntry
                              THEN VaultAfterSet(entry.val, value, answer)
                              ELSE vault
                /\ Record(key, value, SetResult(answer))
    /\ UNCHANGED <<supVars, host>>

\* set_secret(key, value)
set_secret(key, value) ==
    /\ Serving
    /\ \E initWorks \in BOOLEAN, works \in BOOLEAN :
         LET entry == secret_entry(key, initWorks) IN
         IF entry.tag = "Err"
           THEN /\ last' = Command("set", key, entry, EntryLog(key, initWorks))
                /\ vault' = vault
                /\ IF entry.val = "UnsupportedKey"
                     THEN UNCHANGED <<expect, dirty>>
                     ELSE Record(key, value, entry)
           ELSE LET answer == SetPassword(entry.val, works) IN
                /\ last' = Command("set", key, SetResult(answer),
                                   Append(EntryLog(key, initWorks),
                                          <<"set_password", entry.val, answer>>))
                /\ vault' = VaultAfterSet(entry.val, value, answer)
                /\ Record(key, value, SetResult(answer))
    /\ UNCHANGED <<supVars, host>>

\* delete_secret(key)
delete_secret(key) ==
    /\ Serving
    /\ \E initWorks \in BOOLEAN, works \in BOOLEAN :
         LET entry == secret_entry(key, initWorks) IN
         IF entry.tag = "Err"
           THEN /\ last' = Command("delete", key, entry, EntryLog(key, initWorks))
                /\ vault' = vault
                /\ IF entry.val = "UnsupportedKey"
                     THEN UNCHANGED <<expect, dirty>>
                     ELSE Record(key, Deleted, entry)
           ELSE LET answer == DeleteCredential(entry.val, works) IN
                /\ last' = Command("delete", key, DeleteResult(answer),
                                   Append(EntryLog(key, initWorks),
                                          <<"delete_credential", entry.val, answer>>))
                /\ vault' = VaultAfterDelete(entry.val, answer)
                /\ Record(key, Deleted, DeleteResult(answer))
    /\ UNCHANGED <<supVars, host>>

Commands ==
    \/ list_supported_secret_keys
    \/ \E key \in KeyInputs : get_secret(key)
    \/ \E key \in KeyInputs, value \in Values : set_secret(key, value)
    \/ \E key \in KeyInputs : delete_secret(key)

\* the keyring outlives the process: the allow-listed keys hold whatever earlier
\* runs left, and a stale entry sits under a name outside the allow-list
StoreInit ==
    /\ vault \in [KeyInputs -> Values \cup {NoEntry}]
    /\ \A k \in UnsupportedKeys : vault[k] = IF k = "UNLISTED_KEY" THEN "1" ELSE NoEntry
    /\ last = NoCommand
    /\ expect = vault
    /\ dirty = [k \in KeyInputs |-> FALSE]

\* ------------------------------------------------------------------- host
Main == 1
RunEvents == {"ExitRequested", "Exit"}

\* .setup(|app| { if let Err(err) = start_local_api(..) { eprintln!(..) } Ok(()) })
HostSetup ==
    /\ host = "setup"
    /\ InvokeStart(Main)
    /\ host' = "setup_call"
    /\ UNCHANGED storeVars

\* mutation of HostSetupDone: the closure propagates the error (start_local_api(..)?)
\* and the application ends instead of running
HostSetupDone_Propagate ==
    /\ host = "setup_call"
    /\ pc[Main] = "idle"
    /\ host' = IF ret[Main] = "Ok" THEN "run" ELSE "exited"
    /\ UNCHANGED <<supVars, storeVars>>

\* the setup closure returns Ok(()) whatever start_local_api returned
HostSetupDone ==
    /\ host = "setup_call"
    /\ pc[Main] = "idle"
    /\ host' = "run"
    /\ UNCHANGED <<supVars, storeVars>>

\* mutation of HostEvent: the handler matches ExitRequested only, Exit stops nothing
HostEvent_OnlyExitRequested(event) ==
    /\ \/ event = "ExitRequested" /\ host = "run"
       \/ event = "Exit" /\ host \in {"run", "closing"}
    /\ IF event = "ExitRequested"
         THEN InvokeStop(Main) /\ host' = "exit_requested_call"
         ELSE host' = "exited" /\ UNCHANGED supVars
    /\ UNCHANGED storeVars

\* .run(|app, event| if matches!(event, ExitRequested | Exit) { stop_local_api(&app) })
HostEvent(event) ==
    /\ \/ event = "ExitRequested" /\ host = "run"
       \/ event = "Exit" /\ host \in {"run", "closing"}
    /\ InvokeStop(Main)
    /\ host' = IF event = "ExitRequested" THEN "exit_requested_call" ELSE "exit_call"
    /\ UNCHANGED storeVars

\* the event handler returns
HostEventDone ==
    /\ host \in {"exit_requested_call", "exit_call"}
    /\ pc[Main] = "idle"
    /\ host' = IF host = "exit_requested_call" THEN "closing" ELSE "exited"
    /\ UNCHANGED <<supVars, storeVars>>

\* --------------------------------------------------------- specifications
SupInit ==
    /\ LocalApiStateDefault
    /\ scriptExists \in BOOLEAN
    /\ spawned = 0
    /\ kills = [p \in Pids |-> 0]
    /\ exited = {}
    /\ lastKill = "none"
    /\ calls = 0
    /\ nStop = 0
    /\ envFail = FALSE
    /\ overlap = FALSE

\* the supervisor called directly, on a keyring holding no allow-listed key
Init ==
    /\ SupInit
    /\ host = "none"
    /\ StoreInit
    /\ \A k \in SampleKeys : vault[k] = NoEntry

\* a context calls start_local_api
CallStart(t) ==
    /\ calls < MaxCalls
    /\ InvokeStart(t)
    /\ UNCHANGED <<host, storeVars>>

\* a context calls stop_local_api
CallStop(t) ==
    /\ calls < MaxCalls
    /\ InvokeStop(t)
    /\ UNCHANGED <<host, storeVars>>

Next ==
    \/ \E t \in Threads : CallStart(t)
    \/ \E t \in Threads : CallStop(t)
    \/ \E t \in Threads : start_local_api(t)
    \/ \E t \in Threads : stop_local_api(t)
    \/ Environment

Spec == Init /\ [][Next]_vars

\* Fair scheduling of the contexts: a context that can take its next step
\* (run its straight-line code, exists(), spawn() and kill() being bounded OS
\* calls, or take the guard while it stays free) eventually takes it. Nothing
\* is assumed of the callers or of the environment; the calls being finitely
\* many, a waiting context is not overtaken for ever.
Fairness ==
    \A t \in Threads : WF_vars(start_local_api(t) \/ stop_local_api(t))

FairSpec == Init /\ [][Next]_vars /\ Fairness

\* One caller at a time, alternating: the calls numbered 1, 3, 5, ... are
\* start_local_api, the calls numbered 2, 4, ... are stop_local_api, and a
\* call is made only once the previous one has returned.
AllIdle == \A t \in Threads : pc[t] = "idle"

RestartStart(t) ==
    /\ calls < MaxCalls
    /\ calls % 2 = 0
    /\ AllIdle
    /\ InvokeStart(t)
    /\ UNCHANGED <<host, storeVars>>

RestartStop(t) ==
    /\ calls < MaxCalls
    /\ calls % 2 = 1
    /\ AllIdle
    /\ InvokeStop(t)
    /\ UNCHANGED <<host, storeVars>>

RestartNext ==
    \/ \E t \in Threads : RestartStart(t)
    \/ \E t \in Threads : RestartStop(t)
    \/ \E t \in Threads : start_local_api(t)
    \/ \E t \in Threads : stop_local_api(t)
    \/ Environment

RestartSpec == Init /\ [][RestartNext]_vars

HostInit ==
    /\ SupInit
    /\ host = "setup"
    /\ StoreInit

HostNext ==
    \/ HostSetup
    \/ HostSetupDone
    \/ \E event \in RunEvents : HostEvent(event)
    \/ HostEventDone
    \/ start_local_api(Main)
    \/ stop_local_api(Main)
    \/ Environment
    \/ Commands

HostSpec == HostInit /\ [][HostNext]_vars

StoreNext == Commands

\* the commands called directly, on a keyring holding anything
StoreSpecInit ==
    /\ SupInit
    /\ host = "none"
    /\ StoreInit

StoreSpec == StoreSpecInit /\ [][StoreNext]_vars

\* ================================================================== claims
Returned(t) == pc[t] = "idle" /\ ret[t] # "none"
Unkilled == {p \in 1..spawned : kills[p] = 0}

\* C1: two contexts calling start_local_api concurrently from the Stopped state,
\* with the script present and every spawn succeeding (and no stop_local_api
\* called), spawn exactly one process in every interleaving: never more than
\* one, every call that has returned returned Ok, and once a call has returned
\* the one process is spawned and tracked.
C1_ConcurrentStartSpawnsOnce ==
    (nStop = 0 /\ ~envFail) =>
        /\ spawned <= 1
        /\ \A t \in Threads : Returned(t) => ret[t] = "Ok"
        /\ (\E t \in Threads : Returned(t)) => (spawned = 1 /\ child = 1)

\* C1 witness: two calls that were in progress at the same time have both
\* returned Ok, and one process is spawned.
C1_Witness ==
    /\ overlap /\ nStop = 0 /\ ~envFail
    /\ \E t, u \in Threads : t # u /\ Returned(t) /\ Returned(u)
                             /\ ret[t] = "Ok" /\ ret[u] = "Ok"
    /\ spawned = 1 /\ child = 1

\* C2: start_local_api finding a tracked handle is a no-op: the step that
\* examines the slot returns Ok at once, spawns nothing and leaves the slot and
\* the processes as they are; hence with no stop_local_api called at all, any
\* number of calls spawn at most one process, exactly one once a call returned Ok.
C2_StartWhileRunningIsNoOp ==
    /\ [][\A t \in Threads :
            (pc[t] = "start_check" /\ child # NoChild /\ pc'[t] # "start_check") =>
                /\ pc'[t] = "idle" /\ ret'[t] = "Ok"
                /\ child' = child /\ spawned' = spawned /\ kills' = kills]_vars
    /\ [](nStop = 0 =>
            /\ spawned <= 1
            /\ (\E t \in Threads : Returned(t) /\ ret[t] = "Ok") =>
                   (spawned = 1 /\ child = 1))

\* C2 witness: at least two calls were made one after the other (never two in
\* progress at once), none failed, none was a stop, all have returned, and
\* one process is spawned and tracked.
C2_Witness ==
    /\ calls >= 2 /\ nStop = 0 /\ ~overlap /\ ~envFail
    /\ \A t \in Threads : pc[t] = "idle"
    /\ \E t \in Threads : ret[t] = "Ok"
    /\ spawned = 1 /\ child = 1

\* C3: in the host, once an exit event (ExitRequested or Exit) has been handled,
\* no handle is tracked and every process ever spawned was sent a kill request.
C3_ExitTerminatesSidecar ==
    host \in {"closing", "exited"} =>
        /\ child = NoChild
        /\ \A p \in 1..spawned : kills[p] >= 1

\* C3 witness: the host has exited after setup spawned the sidecar.
C3_Witness == host = "exited" /\ spawned = 1 /\ kills[1] >= 1 /\ child = NoChild

\* C4: in every interleaving of start_local_api and stop_local_api, at no time
\* are there two spawned processes that were not sent a kill request, and no
\* process is sent more than one.
C4_NoDoubleSpawnNoDoubleKill ==
    /\ Cardinality(Unkilled) <= 1
    /\ \A p \in Pids : kills[p] <= 1

\* C4 witness: a start has spawned a second process while a stop waits for the
\* guard, the first process having been killed.
C4_Witness ==
    \E t, u \in Threads :
        /\ t # u
        /\ pc[t] = "start_store" /\ pc[u] = "stop_lock"
        /\ spawned = 2 /\ kills[1] = 1 /\ kills[2] = 0

\* C5: in the host, after the stop_local_api of an exit event returned, the
\* state is Stopped and the call returned without error; a process spawned by
\* setup was sent exactly one kill request, also after the second stop (Exit
\* following ExitRequested), and with nothing spawned no request was sent.
C5_StopOnceAndNoOp ==
    host \in {"closing", "exited"} =>
        /\ child = NoChild
        /\ ret[Main] = "Unit"
        /\ \A p \in Pids : kills[p] = IF p <= spawned THEN 1 ELSE 0

\* C5 witness: ExitRequested and then Exit were handled after a successful
\* setup: two stops, one kill request.
C5_Witness ==
    /\ host = "exited" /\ nStop = 2
    /\ spawned = 1 /\ kills[1] = 1 /\ child = NoChild

\* C6: when start_local_api, having found no tracked handle, finds the script
\* absent, it returns ScriptMissing, spawns nothing and leaves the slot empty.
C6_ScriptMissing ==
    [][\A t \in Threads :
         (pc[t] = "start_exists" /\ ~scriptExists /\ pc'[t] # "start_exists") =>
             /\ pc'[t] = "idle" /\ ret'[t] = "ScriptMissing"
             /\ spawned' = spawned
             /\ child = NoChild /\ child' = NoChild]_vars

\* C6 witness: a call has returned ScriptMissing with nothing spawned or tracked.
C6_Witness ==
    \E t \in Threads :
        /\ Returned(t) /\ ret[t] = "ScriptMissing"
        /\ spawned = 0 /\ child = NoChild /\ ~scriptExists
\* the keyring failed on one of the calls a command made
Failed(log) == \E i \in 1..Len(log) : log[i][3] = "Failure"
Supported(key) == Contains(SUPPORTED_SECRET_KEYS, key)
KeyedOps == {"get", "set", "delete"}

\* C7: for a key outside the allow-list, get, set and delete return
\* UnsupportedKey, make no call to the keyring, and leave its contents unchanged.
C7_UnsupportedKeyNoVaultAccess ==
    /\ []((last.op \in KeyedOps /\ ~Supported(last.key)) =>
            (last.res = Err("UnsupportedKey") /\ last.log = <<>>))
    /\ [][(last'.op \in KeyedOps /\ ~Supported(last'.key)) => vault' = vault]_vars

\* C7 witness: get was called with a key outside the allow-list under which the
\* keyring does hold an entry, and returned UnsupportedKey without any call.
C7_Witness ==
    /\ last.op = "get" /\ last.key = "UNLISTED_KEY" /\ vault["UNLISTED_KEY"] \in Values
    /\ last.res = Err("UnsupportedKey") /\ last.log = <<>>

\* C8 as stated: get of an allow-listed key after a delete call, or with no
\* set at all, returns Ok(None), never an error.
C8_GetAbsentNeverErrors ==
    (last.op = "get" /\ Supported(last.key) /\ expect[last.key] \in {NoEntry, Deleted})
        => last.res = Ok("OkNone", "")

\* C8 amended: get of an allow-listed key after a delete that did not fail, or
\* with no set at all, returns Ok(None) unless the keyring fails on the get
\* itself, and then it returns an error.
C8_GetAbsentIsNone ==
    (last.op = "get" /\ Supported(last.key) /\ expect[last.key] \in {NoEntry, Deleted}
       /\ ~dirty[last.key])
        => IF Failed(last.log) THEN last.res.tag = "Err" ELSE last.res = Ok("OkNone", "")

\* C8 witness: get after a delete call returned Ok(None).
C8_Witness ==
    /\ last.op = "get" /\ Supported(last.key) /\ expect[last.key] = Deleted
    /\ last.res = Ok("OkNone", "")

\* C9 as stated: get of an allow-listed key returns Some of the value of the
\* most recent set call not followed by a delete call.
C9_LastWriteWins ==
    (last.op = "get" /\ Supported(last.key) /\ expect[last.key] \in Values)
        => last.res = Ok("OkSome", expect[last.key])

\* C9 amended: the same, provided the keyring failed neither on the most recent
\* set/delete call on the key nor on the get itself; when it fails on the get,
\* get returns an error.
C9_LastSuccessfulWriteWins ==
    (last.op = "get" /\ Supported(last.key) /\ expect[last.key] \in Values
       /\ ~dirty[last.key])
        => IF Failed(last.log) THEN last.res.tag = "Err"
           ELSE last.res = Ok("OkSome", expect[last.key])

\* C9 witness: get returned the value last set on one key while the other
\* allow-listed key holds a different value.
C9_Witness ==
    /\ last.op = "get" /\ last.key = SUPPORTED_SECRET_KEYS[1]
    /\ last.res = Ok("OkSome", "2") /\ expect[last.key] = "2"
    /\ vault[SUPPORTED_SECRET_KEYS[Len(SUPPORTED_SECRET_KEYS)]] = "1"

\* C10 as stated: delete of an allow-listed key with no stored record returns
\* Ok and leaves the keyring unchanged.
C10_DeleteAbsentSucceeds ==
    [][(last'.op = "delete" /\ Supported(last'.key) /\ vault[last'.key] = NoEntry)
         => (last'.res = Ok("Ok", "") /\ vault' = vault)]_vars

\* C10 amended: delete of an allow-listed key with no stored record leaves the
\* keyring unchanged and returns Ok unless the keyring itself fails on the call,
\* and then it returns an error.
C10_DeleteAbsentIdempotent ==
    [][(last'.op = "delete" /\ Supported(last'.key) /\ vault[last'.key] = NoEntry)
         => /\ vault' = vault
            /\ IF Failed(last'.log) THEN last'.res.tag = "Err"
               ELSE last'.res = Ok("Ok", "")]_vars

\* C10 witness: delete_credential answered NoEntry and delete returned Ok.
C10_Witness ==
    /\ last.op = "delete" /\ Supported(last.key)
    /\ last.res = Ok("Ok", "")
    /\ last.log[Len(last.log)] = <<"delete_credential", last.key, "NoEntry">>
    /\ vault[last.key] = NoEntry
\* C11: list_supported_secret_keys returns the thirteen allow-listed keys in
\* their declared order whatever commands and sidecar operations came before,
\* asks the keyring nothing, and the step that serves it changes neither the
\* keyring nor any sidecar state.
C11_ListIsTheAllowList ==
    /\ [](last.op = "list" =>
            /\ last.res = Ok("OkList", "")
            /\ last.list = SUPPORTED_SECRET_KEYS
            /\ Len(last.list) = 13
            /\ last.list[1] = "GROQ_API_KEY" /\ last.list[13] = "VITE_WS_RELAY_URL"
            /\ last.log = <<>>)
    /\ [][(last'.op = "list" /\ last.op # "list") =>
            (vault' = vault /\ supVars' = supVars /\ host' = host)]_vars

\* C11 witness: the list was served in the run loop after setup spawned the
\* sidecar, with a value stored in the keyring.
C11_Witness ==
    /\ last.op = "list" /\ last.list = SUPPORTED_SECRET_KEYS
    /\ host = "run" /\ spawned = 1 /\ child = 1
    /\ \E k \in SampleKeys : expect[k] \in Values /\ ~dirty[k] /\ vault[k] = expect[k]
\* C12: stop_local_api finding a tracked handle empties the slot before kill()
\* is asked, and whatever kill() reports (success or error, the process having
\* exited or not) the slot is empty when the call returns, and it returns unit.
C12_StopClearsUnconditionally ==
    /\ [](\A t \in Threads : pc[t] = "stop_kill" => child = NoChild)
    /\ [][\A t \in Threads :
            /\ (pc[t] = "stop_take" /\ child # NoChild /\ pc'[t] # "stop_take") =>
                   (child' = NoChild /\ pc'[t] = "stop_kill" /\ slotLocal'[t] = child)
            /\ (pc[t] = "stop_kill" /\ pc'[t] # "stop_kill") =>
                   /\ lastKill' \in {"ok", "err"}
                   /\ child' = NoChild
                   /\ pc'[t] = "idle" /\ ret'[t] = "Unit"]_vars

\* C12 witness: the one process spawned exited on its own, the one kill()
\* sent to it reported an error, and stop returned with the slot empty.
C12_Witness ==
    /\ spawned = 1 /\ 1 \in exited /\ kills[1] = 1 /\ lastKill = "err"
    /\ child = NoChild /\ lock = NoThread
    /\ \E t \in Threads : Returned(t) /\ ret[t] = "Unit"
\* positions at which a context is about to do I/O: script.exists(),
\* cmd.spawn(), child.kill()
AtIO(t) == pc[t] \in {"start_exists", "start_spawn", "stop_kill"}
\* positions between lock() and the return
InCritical(t) == pc[t] \in {"start_check", "start_exists", "start_spawn", "start_store",
                            "stop_take", "stop_kill"}

\* C13 as stated: the guard is not held while the script-existence check, the
\* spawn or the kill request is performed.
C13_NoLockAcrossIO ==
    \A t \in Threads : AtIO(t) => lock # t

\* C13 amended: the guard is held from lock() to the return of each call, so
\* the script-existence check, the spawn and the kill request are all
\* performed while the calling context holds it, and by no more than one
\* context at a time.
C13_LockHeldAcrossIO ==
    /\ \A t \in Threads : InCritical(t) <=> lock = t
    /\ \A t, u \in Threads : (AtIO(t) /\ AtIO(u)) => t = u

\* C13 witness: one context is about to send kill() holding the guard while
\* another waits for the guard in start_local_api.
C13_Witness ==
    \E t, u \in Threads :
        /\ t # u
        /\ pc[t] = "stop_kill" /\ lock = t
        /\ pc[u] = "start_lock"
\* C14: the spawn step of start_local_api (reached only with the slot empty)
\* either fails, and the call returns SpawnFailed with nothing spawned, no
\* handle kept and the slot still empty, or succeeds with one new process whose
\* handle the next step stores, returning Ok; and the slot never goes from
\* empty to tracked except by that store of the handle just spawned.
C14_SpawnFailedKeepsStopped ==
    [][/\ \A t \in Threads :
            /\ (pc[t] = "start_spawn" /\ pc'[t] # "start_spawn") =>
                   /\ child = NoChild /\ child' = NoChild
                   /\ IF spawned' = spawned
                        THEN /\ pc'[t] = "idle" /\ ret'[t] = "SpawnFailed"
                             /\ slotLocal'[t] = NoChild
                        ELSE /\ spawned' = spawned + 1
                             /\ pc'[t] = "start_store" /\ slotLocal'[t] = spawned'
            /\ (pc[t] = "start_store" /\ pc'[t] # "start_store") =>
                   (child' = slotLocal[t] /\ child' # NoChild
                      /\ pc'[t] = "idle" /\ ret'[t] = "Ok")
       /\ (child = NoChild /\ child' # NoChild) =>
              \E t \in Threads :
                  /\ pc[t] = "start_store" /\ child' = slotLocal[t]
                  /\ child' = spawned /\ kills[child'] = 0
                  /\ ret'[t] = "Ok"]_vars

\* C14 witness: with the script present a call returned SpawnFailed; nothing is
\* spawned, no handle is kept, the slot is empty.
C14_Witness ==
    \E t \in Threads :
        /\ Returned(t) /\ ret[t] = "SpawnFailed"
        /\ calls = 1 /\ scriptExists
        /\ spawned = 0 /\ child = NoChild /\ slotLocal[t] = NoChild /\ lock = NoThread
\* C15: no liveness detection. The step in which a process exits on its own
\* leaves the slot as it is; a tracked handle leaves the slot only by the take()
\* of a stop_local_api; and start_local_api finding a tracked handle whose
\* process has exited returns Ok without spawning a replacement.
C15_NoLivenessDetection ==
    [][/\ (exited' # exited) => child' = child
       /\ (child # NoChild /\ child' # child) =>
              \E t \in Threads : pc[t] = "stop_take" /\ pc'[t] = "stop_kill"
                                 /\ child' = NoChild
       /\ \A t \in Threads :
              (pc[t] = "start_check" /\ child \in exited /\ pc'[t] # "start_check") =>
                  /\ pc'[t] = "idle" /\ ret'[t] = "Ok"
                  /\ spawned' = spawned /\ child' = child]_vars

\* C15 witness: the only process spawned has exited on its own and was never
\* sent kill(), no stop was called, two or more start calls have returned, and
\* the slot still tracks the dead process.
C15_Witness ==
    /\ spawned = 1 /\ 1 \in exited /\ kills[1] = 0 /\ child = 1
    /\ nStop = 0 /\ calls >= 2
    /\ \A t \in Threads : pc[t] = "idle"
    /\ \E t \in Threads : ret[t] = "Ok"
\* C16: whatever the start_local_api of setup returned (Ok, ScriptMissing or
\* SpawnFailed), the setup closure completes and the only phase that follows is
\* the run loop; there every secret command can be served and the exit events,
\* which call stop_local_api, can be handled.
C16_StartFailureNotFatal ==
    /\ []((host = "setup_call" /\ pc[Main] = "idle") =>
            /\ ret[Main] \in {"Ok", "ScriptMissing", "SpawnFailed"}
            /\ ENABLED HostSetupDone)
    /\ [][(host = "setup_call" /\ host' # host) => host' = "run"]_vars
    /\ [](host = "run" =>
            /\ \A k \in KeyInputs : ENABLED get_secret(k)
            /\ \A k \in KeyInputs : ENABLED delete_secret(k)
            /\ \A k \in KeyInputs, v \in Values : ENABLED set_secret(k, v)
            /\ ENABLED list_supported_secret_keys
            /\ \A e \in RunEvents : ENABLED HostEvent(e))

\* C16 witness: setup's start failed (nothing was ever spawned), the run loop
\* served a set that stored its value, and the application has exited after
\* calling stop_local_api.
C16_Witness ==
    /\ host = "exited" /\ envFail /\ spawned = 0 /\ nStop >= 1
    /\ last.op = "set" /\ last.res = Ok("Ok", "")
\* C17: get of an allow-listed key has three outcomes, decided by what the
\* keyring answered: Some(v), v being the stored value, exactly when
\* get_password answered with a password; Ok(None) exactly when it answered
\* NoEntry (nothing is stored); an error exactly when Entry::new or
\* get_password failed otherwise. A keyring failure is never reported as None.
C17_GetThreeOutcomes ==
    (last.op = "get" /\ Supported(last.key)) =>
        /\ Len(last.log) >= 1
        /\ last.log[1][1] = "Entry::new" /\ last.log[1][2] = last.key
        /\ IF last.log[1][3] = "Failure"
             THEN Len(last.log) = 1 /\ last.res = Err("KeyringInit")
             ELSE /\ Len(last.log) = 2
                  /\ last.log[2][1] = "get_password" /\ last.log[2][2] = last.key
                  /\ last.log[2][3] \in {"Ok", "NoEntry", "Failure"}
                  /\ (last.log[2][3] = "Ok") <=>
                         (last.res.tag = "OkSome" /\ last.res.val = vault[last.key]
                            /\ vault[last.key] \in Values)
                  /\ (last.log[2][3] = "NoEntry") <=>
                         (last.res = Ok("OkNone", "") /\ vault[last.key] = NoEntry)
                  /\ (last.log[2][3] = "Failure") <=> (last.res = Err("ReadFailed"))
        /\ Failed(last.log) <=> last.res.tag = "Err"

\* C17 witness: the keyring failed on get_password while a value is stored under
\* the key, and get returned an error.
C17_Witness ==
    /\ last.op = "get" /\ Supported(last.key)
    /\ vault[last.key] \in Values
    /\ last.log[Len(last.log)] = <<"get_password", last.key, "Failure">>
    /\ last.res = Err("ReadFailed")
\* C18: the guard is released on every exit path (a context that is not
\* between lock() and its return does not hold it, and it is free when no
\* context is), and under fair scheduling every call of start_local_api or
\* stop_local_api, by any of the concurrent contexts, eventually returns.
C18_EveryCallReturns ==
    /\ [](\A t \in Threads : ~InCritical(t) => lock # t)
    /\ []((\A t \in Threads : ~InCritical(t)) => lock = NoThread)
    /\ \A t \in Threads : (pc[t] # "idle") ~> (pc[t] = "idle")

\* C18 witness: one context returned by the script-missing path and another by
\* the success path, after calls that were in progress at once; the guard is free.
C18_Witness ==
    /\ overlap /\ lock = NoThread
    /\ \E t, u \in Threads :
          /\ t # u
          /\ Returned(t) /\ ret[t] = "ScriptMissing"
          /\ Returned(u) /\ ret[u] = "Ok"
\* C19: no orphaned sidecar. Whenever no context is inside a critical section
\* (the guard is free), a handle is tracked if and only if exactly one spawned
\* process has not been sent kill(), and that process is the tracked one; with
\* no handle tracked every process ever spawned has been sent kill().
C19_NoOrphan ==
    lock = NoThread =>
        /\ (child # NoChild) <=> (Cardinality(Unkilled) = 1)
        /\ child # NoChild => Unkilled = {child}
        /\ child = NoChild => \A p \in 1..spawned : kills[p] >= 1

\* C19 witness: outside any critical section a second process is tracked, the
\* first one having been killed.
C19_Witness ==
    /\ lock = NoThread
    /\ spawned = 2 /\ child = 2 /\ kills[1] = 1 /\ kills[2] = 0
\* C20: the supervisor is restartable. With calls made one at a time,
\* alternating start_local_api and stop_local_api, the script present and every
\* spawn succeeding, once the calls made so far have returned: each start has
\* spawned a new process (n pairs: n processes), each stop has sent kill() to
\* the process of the start before it, exactly once (n pairs: n requests), and
\* after a start the slot tracks the newest process, after a stop none.
C20_Restartable ==
    (AllIdle /\ ~envFail) =>
        /\ spawned = (calls + 1) \div 2
        /\ \A p \in 1..spawned : kills[p] = (IF p <= calls \div 2 THEN 1 ELSE 0)
        /\ child = (IF calls % 2 = 1 THEN spawned ELSE NoChild)
        /\ lock = NoThread

\* C20 witness: two start/stop pairs have returned; two processes were
\* spawned, each was sent kill() once, and the slot is empty again.
C20_Witness ==
    /\ AllIdle /\ ~envFail
    /\ calls = 4 /\ nStop = 2
    /\ spawned = 2 /\ kills[1] = 1 /\ kills[2] = 1
    /\ child = NoChild

====
